---- MODULE Spec2Model ----
(***************************************************************************)
(* A model of python-sdk/nuscenes_utils/data_classes.py: the two point     *)
(* cloud decoders (PointCloud.load_numpy_bin, PointCloud.load_pcd_bin),    *)
(* PointCloud.from_file, the PointCloud operations and the Box class.      *)
(*                                                                         *)
(* A matrix (a 2-d numpy array) is a sequence of rows, each row a sequence *)
(* of the same length, so that a K x 0 matrix still has its K rows.        *)
(* A floating-point number of the decoders is a record [k, v, d]:          *)
(* k = "num" for the value v / 2^d, k = "nan", or k = "inf".               *)
(***************************************************************************)
EXTENDS Integers, Sequences, FiniteSets, TLC

VARIABLES
    file_name,  \* from_file's argument, a sequence of characters
    file,       \* the content of the file the loaders read
    pc,         \* the position of the running loader call
    caller,     \* "direct": a loader called by itself; "from_file": by from_file
    offset,     \* load_pcd_bin: the running byte offset
    point,      \* load_pcd_bin: the fields decoded of the current point
    plist,      \* load_pcd_bin: the list `points` of the decoded points
    ret,        \* what the loader call returned or raised
    points,     \* PointCloud.points, a 4 x N matrix
    last,       \* the PointCloud method called last, its argument, and
                \* nbr_points() when it was called
    box,        \* a Box: center, wlh, orientation, label, score, velocity
    built,      \* which velocity components were NaN when the Box was constructed
    other,      \* the second Box, the argument of Box.__eq__
    out         \* what the last Box method returned

loaderVars == <<file_name, file, pc, caller, offset, point, plist, ret>>
cloudVars == <<points, last>>
boxVars == <<box, built, other, out>>
vars == <<file_name, file, pc, caller, offset, point, plist, ret, points, last, box, built, other, out>>

(***************************************************************************)
(* Bounds of the model.                                                    *)
(***************************************************************************)
MaxFields == 2    \* fields of a PCD header
MaxWidth == 2     \* WIDTH of a PCD header
MaxPayload == 5   \* bytes of a PCD payload
MaxWords == 10    \* float32 words of a flat binary file
MaxPoints == 2    \* columns of a PointCloud
MaxCenter == 1    \* |coordinate| of a Box center

(***************************************************************************)
(* Numbers.                                                                *)
(***************************************************************************)
\* The number v / 2^d.
Num(n) == [k |-> "num", v |-> n, d |-> 0]
NaN == [k |-> "nan", v |-> 0, d |-> 0]
Inf(s) == [k |-> "inf", v |-> s, d |-> 0]
isnan(x) == x.k = "nan"

\* v / 2^d in lowest terms.
RECURSIVE Dyadic(_, _)
Dyadic(v, d) ==
    IF d > 0 /\ v % 2 = 0 THEN Dyadic(v \div 2, d - 1) ELSE [k |-> "num", v |-> v, d |-> d]

Abs(n) == IF n < 0 THEN -n ELSE n

RECURSIVE Pow2(_)
Pow2(n) == IF n = 0 THEN 1 ELSE 2 * Pow2(n - 1)

RECURSIVE SumSeq(_)
SumSeq(s) == IF s = <<>> THEN 0 ELSE Head(s) + SumSeq(Tail(s))

\* The sequences of length lo..hi over S.
SeqsOf(S, lo, hi) == UNION {[1..n -> S] : n \in lo..hi}

NbrRows(m) == Len(m)
NbrCols(m) == IF m = <<>> THEN 0 ELSE Len(m[1])

\* numpy's transpose of a matrix with `cols` columns.
Transpose(m, cols) == [c \in 1..cols |-> [r \in 1..Len(m) |-> m[r][c]]]

\* np.zeros((rows, 0)).
EmptyMatrix(rows) == [r \in 1..rows |-> <<>>]

Returned(kind, value) == [kind |-> kind, value |-> value]
Raised(kind) == [kind |-> kind, value |-> <<>>]
NoResult == [kind |-> "none", value |-> <<>>]

(***************************************************************************)
(* struct.unpack of one field.  A payload byte is 0x00 or 0xFF.            *)
(***************************************************************************)
ByteVals == {0, 255}
RECURSIVE LittleEndian(_)
LittleEndian(bytes) ==
    IF bytes = <<>> THEN 0 ELSE Head(bytes) + 256 * LittleEndian(Tail(bytes))

UnpackSigned(bytes) ==
    LET raw == LittleEndian(bytes)
        bits == 8 * Len(bytes)
    IN  Num(IF raw >= Pow2(bits - 1) THEN raw - Pow2(bits) ELSE raw)

UnpackUnsigned(bytes) == Num(LittleEndian(bytes))

\* IEEE 754 binary16 ('e'): 1 sign bit, 5 exponent bits, 10 fraction bits.
UnpackHalf(bytes) ==
    LET raw == LittleEndian(bytes)
        sign == IF raw \div 32768 = 1 THEN -1 ELSE 1
        expo == (raw \div 1024) % 32
        frac == raw % 1024
    IN  IF expo = 31
        THEN IF frac = 0 THEN Inf(sign) ELSE NaN
        ELSE IF expo = 0
             THEN Dyadic(sign * frac, 24)
             ELSE IF expo >= 25
                  THEN Num(sign * (1024 + frac) * Pow2(expo - 25))
                  ELSE Dyadic(sign * (1024 + frac), 25 - expo)

Unpack(fmt, bytes) ==
    CASE fmt \in {"b", "h", "i", "q"} -> UnpackSigned(bytes)
      [] fmt \in {"B", "H", "I", "Q"} -> UnpackUnsigned(bytes)
      [] fmt = "e" -> UnpackHalf(bytes)

\* The lookup table for how to decode the binaries; "KeyError" where the
\* table has no entry.
unpacking_lut(t, s) ==
    CASE t = "F" /\ s = 2 -> "e"
      [] t = "F" /\ s = 4 -> "f"
      [] t = "F" /\ s = 8 -> "d"
      [] t = "I" /\ s = 1 -> "b"
      [] t = "I" /\ s = 2 -> "h"
      [] t = "I" /\ s = 4 -> "i"
      [] t = "I" /\ s = 8 -> "q"
      [] t = "U" /\ s = 1 -> "B"
      [] t = "U" /\ s = 2 -> "H"
      [] t = "U" /\ s = 4 -> "I"
      [] t = "U" /\ s = 8 -> "Q"
      [] OTHER -> "KeyError"

types_str(hdr) == [p \in 1..Len(hdr.types) |-> unpacking_lut(hdr.types[p], hdr.sizes[p])]

(***************************************************************************)
(* The files.                                                              *)
(***************************************************************************)
Sizes == {1, 2}
Types == {"F", "I", "U"}
Counts == {"1", "2"}
Heights == {1, 2}
DataModes == {"binary", "ascii"}

\* f is a .pcd file: the header fields load_pcd_bin reads and the binary
\* payload.
IsPcdFile(f) ==
    \E n \in 1..MaxFields :
        \E s \in [1..n -> Sizes], t \in [1..n -> Types], c \in [1..n -> Counts] :
            \E w \in 0..MaxWidth, h \in Heights, d \in DataModes :
                \E b \in SeqsOf(ByteVals, 0, MaxPayload) :
                    f = [kind |-> "pcd", sizes |-> s, types |-> t, counts |-> c,
                         width |-> w, height |-> h, data |-> d, data_binary |-> b]

\* f is a .bin file: its whole float32 words and the 0..3 bytes left after
\* them.
WordVals == {0, 1}
IsBinFile(f) ==
    \E w \in SeqsOf(WordVals, 0, MaxWords), t \in 0..3 :
        f = [kind |-> "bin", words |-> w, tail |-> t]

FileLen(f) == 4 * Len(f.words) + f.tail

FileNames ==
    {<<"a", ".", "b", "i", "n">>, <<"a", ".", "p", "c", "d">>, <<"a", ".", "n", "p", "y">>}

endswith(name, suffix) ==
    /\ Len(name) >= Len(suffix)
    /\ SubSeq(name, Len(name) - Len(suffix) + 1, Len(name)) = suffix

NoName == <<>>
IdleCloud == <<>>
IdleBox == [kind |-> "none"]

loaderIdle ==
    /\ file_name = NoName
    /\ file = [kind |-> "none"]
    /\ pc = "idle"
    /\ caller = "none"
    /\ offset = 0
    /\ point = <<>>
    /\ plist = <<>>
    /\ ret = NoResult

cloudIdle == points = IdleCloud /\ last = [op |-> "none", n |-> 0, arg |-> 0]
NoOut == [op |-> "none", arg |-> 0, value |-> <<>>]
boxIdle == box = IdleBox /\ built = <<>> /\ other = IdleBox /\ out = NoOut

\* Where a loader goes when it returns a matrix: back to from_file, which
\* constructs the PointCloud, or to the end of the call.
AfterLoad == IF caller = "from_file" THEN "init" ELSE "done"

(***************************************************************************)
(* PointCloud.load_numpy_bin                                               *)
(***************************************************************************)
\* np.fromfile(file_name, dtype=np.float32): the whole float32 items of the file.
fromfile(f) == f.words

\* scan.reshape((-1, 5))[:, :4] followed by .T: row r, column i is item
\* 5 i + r of the scan (counting from 0).
reshape_first4_T(scan) ==
    [r \in 1..4 |-> [i \in 1..(Len(scan) \div 5) |-> scan[5 * (i - 1) + r]]]

load_numpy_bin ==
    /\ pc = "load_numpy_bin"
    /\ LET scan == fromfile(file)
       IN  IF Len(scan) % 5 # 0
           THEN ret' = Raised("ValueError") /\ pc' = "done"
           ELSE ret' = Returned("matrix", reshape_first4_T(scan)) /\ pc' = AfterLoad
    /\ UNCHANGED <<file_name, file, caller, offset, point, plist>>
    /\ UNCHANGED <<cloudVars, boxVars>>

(***************************************************************************)
(* PointCloud.load_pcd_bin                                                 *)
(***************************************************************************)
\* [c for c in counts if c != c]
unsupported_counts(counts) == {p \in 1..Len(counts) : counts[p] # counts[p]}

\* Lines 60-89: read the header, check it, build the unpack formats.
pcd_header ==
    /\ pc = "load_pcd_bin"
    /\ IF \/ ~(file.width > 0)
          \/ ~(Cardinality(unsupported_counts(file.counts)) = 0)
          \/ ~(file.height = 1)
          \/ ~(file.data = "binary")
       THEN ret' = Raised("AssertionError") /\ pc' = "done"
       ELSE IF \E p \in 1..Len(file.types) : types_str(file)[p] = "KeyError"
            THEN ret' = Raised("KeyError") /\ pc' = "done"
            ELSE ret' = ret /\ pc' = "decode"
    /\ offset' = 0
    /\ point' = <<>>
    /\ plist' = <<>>
    /\ UNCHANGED <<file_name, file, caller>>
    /\ UNCHANGED <<cloudVars, boxVars>>

\* The bounds check of line 100.
in_bounds(end_p, data_binary) == end_p < Len(data_binary)

\* Lines 95-104: one pass of the inner loop, decoding field p of point i.
pcd_decode_field ==
    /\ pc = "decode"
    /\ Len(plist) < file.width
    /\ LET feature_count == Len(file.types)
           p == Len(point) + 1
           start_p == offset
           end_p == start_p + file.sizes[p]
       IN  IF ~in_bounds(end_p, file.data_binary)
           THEN /\ ret' = Raised("AssertionError")
                /\ pc' = "done"
                /\ UNCHANGED <<offset, point, plist>>
           ELSE LET point_p == Unpack(types_str(file)[p],
                                      SubSeq(file.data_binary, start_p + 1, end_p))
                    full == Append(point, point_p)
                IN  /\ offset' = end_p
                    /\ IF Len(full) = feature_count
                       THEN point' = <<>> /\ plist' = Append(plist, full)
                       ELSE point' = full /\ plist' = plist
                    /\ UNCHANGED <<pc, ret>>
    /\ UNCHANGED <<file_name, file, caller>>
    /\ UNCHANGED <<cloudVars, boxVars>>

\* Lines 106-114: the empty-cloud check on the first point, and the transpose.
pcd_finish ==
    /\ pc = "decode"
    /\ Len(plist) = file.width
    /\ LET feature_count == Len(file.types)
       IN  IF \E p \in 1..Len(plist[1]) : isnan(plist[1][p])
           THEN ret' = Returned("matrix", EmptyMatrix(feature_count))
           ELSE ret' = Returned("matrix", Transpose(plist, feature_count))
    /\ pc' = AfterLoad
    /\ UNCHANGED <<file_name, file, caller, offset, point, plist>>
    /\ UNCHANGED <<cloudVars, boxVars>>

(***************************************************************************)
(* PointCloud.from_file and PointCloud.__init__                            *)
(***************************************************************************)
from_file ==
    /\ pc = "from_file"
    /\ IF endswith(file_name, <<".", "b", "i", "n">>)
       THEN pc' = "load_numpy_bin" /\ ret' = ret
       ELSE IF endswith(file_name, <<".", "p", "c", "d">>)
            THEN pc' = "load_pcd_bin" /\ ret' = ret
            ELSE pc' = "done" /\ ret' = Raised("ValueError")
    /\ UNCHANGED <<file_name, file, caller, offset, point, plist>>
    /\ UNCHANGED <<cloudVars, boxVars>>

\* cls(points): the constructor's check of the row count.
PointCloud_init ==
    /\ pc = "init"
    /\ IF NbrRows(ret.value) = 4
       THEN ret' = Returned("PointCloud", ret.value)
       ELSE ret' = Raised("AssertionError")
    /\ pc' = "done"
    /\ UNCHANGED <<file_name, file, caller, offset, point, plist>>
    /\ UNCHANGED <<cloudVars, boxVars>>

(***************************************************************************)
(* The specifications of the loaders.                                      *)
(***************************************************************************)
InitLoader(name, at, by) ==
    /\ file_name = name
    /\ pc = at
    /\ caller = by
    /\ offset = 0
    /\ point = <<>>
    /\ plist = <<>>
    /\ ret = NoResult
    /\ cloudIdle
    /\ boxIdle

\* A direct call of load_pcd_bin on a .pcd file.
InitPcd == IsPcdFile(file) /\ InitLoader(NoName, "load_pcd_bin", "direct")
NextPcd == pcd_header \/ pcd_decode_field \/ pcd_finish
SpecPcd == InitPcd /\ [][NextPcd]_vars

\* A direct call of load_numpy_bin on a .bin file.
InitBin == IsBinFile(file) /\ InitLoader(NoName, "load_numpy_bin", "direct")
NextBin == load_numpy_bin
SpecBin == InitBin /\ [][NextBin]_vars

\* A call of from_file; the content of the file is of the kind its extension
\* names, and of the flat kind under any other extension.
InitFile ==
    \E name \in FileNames :
        /\ IF endswith(name, <<".", "p", "c", "d">>) THEN IsPcdFile(file) ELSE IsBinFile(file)
        /\ InitLoader(name, "from_file", "from_file")
NextFile ==
    \/ from_file
    \/ load_numpy_bin
    \/ pcd_header
    \/ pcd_decode_field
    \/ pcd_finish
    \/ PointCloud_init
SpecFile == InitFile /\ [][NextFile]_vars

(***************************************************************************)
(* PointCloud: the operations on the 4 x N matrix self.points.             *)
(***************************************************************************)
XYVals == -1..1
ZVals == 0..1
IntensityVals == 0..1

\* The ratios of subsample, as <<numerator, denominator>>.
Ratios == {<<0, 1>>, <<1, 2>>, <<1, 1>>, <<3, 2>>}
Radii == 0..2
Translations == {<<0, 0, 0>>, <<1, 0, 0>>, <<0, -1, 0>>, <<0, 0, 1>>, <<0, 0, -1>>}
RotationMatrices ==
    {<<<<1, 0, 0>>, <<0, 1, 0>>, <<0, 0, 1>>>>,
     <<<<0, -1, 0>>, <<1, 0, 0>>, <<0, 0, 1>>>>,
     <<<<-1, 0, 0>>, <<0, -1, 0>>, <<0, 0, 1>>>>}
TransformMatrices ==
    {<<<<1, 0, 0, 0>>, <<0, 1, 0, 0>>, <<0, 0, 1, 0>>, <<0, 0, 0, 1>>>>,
     <<<<0, -1, 0, 0>>, <<1, 0, 0, 0>>, <<0, 0, 1, 1>>, <<0, 0, 0, 1>>>>,
     <<<<1, 0, 0, -1>>, <<0, 1, 0, 1>>, <<0, 0, 1, 0>>, <<0, 0, 0, 1>>>>}

\* The clouds of the model: their coordinates stay within the value sets.
InCloudDomain(m) ==
    \A i \in 1..NbrCols(m) :
        m[1][i] \in XYVals /\ m[2][i] \in XYVals /\ m[3][i] \in ZVals

\* np.dot of two matrices; b has `cols` columns.
RECURSIVE DotSum(_, _, _, _)
DotSum(a, b, c, k) ==
    IF k = 0 THEN 0 ELSE DotSum(a, b, c, k - 1) + a[k] * b[k][c]
Dot(a, b, cols) == [r \in 1..Len(a) |-> [c \in 1..cols |-> DotSum(a[r], b, c, Len(b))]]

nbr_points(pts) == Len(pts[2])

\* int(): truncation toward zero of num / den, den > 0.
int(num, den) == IF num >= 0 THEN num \div den ELSE -((-num) \div den)

\* self.points[:, selected_ind]
take_columns(pts, selected_ind) ==
    [r \in 1..Len(pts) |-> [j \in 1..Len(selected_ind) |-> pts[r][selected_ind[j]]]]

\* row[mask]: the entries of a row at the places where the mask is true.
RECURSIVE mask_row(_, _)
mask_row(row, mask) ==
    IF row = <<>> THEN <<>>
    ELSE IF Head(mask) THEN <<Head(row)>> \o mask_row(Tail(row), Tail(mask))
         ELSE mask_row(Tail(row), Tail(mask))

\* not_close with the gate closed at the radius.
not_close_le(pts, radius) ==
    LET x_filt == [i \in 1..nbr_points(pts) |-> Abs(pts[1][i]) <= radius]
        y_filt == [i \in 1..nbr_points(pts) |-> Abs(pts[2][i]) <= radius]
    IN  [i \in 1..nbr_points(pts) |-> ~(x_filt[i] /\ y_filt[i])]

\* Lines 153-155 of remove_close.
not_close(pts, radius) ==
    LET x_filt == [i \in 1..nbr_points(pts) |-> Abs(pts[1][i]) < radius]
        y_filt == [i \in 1..nbr_points(pts) |-> Abs(pts[2][i]) < radius]
    IN  [i \in 1..nbr_points(pts) |-> ~(x_filt[i] /\ y_filt[i])]

\* self.points[:, not_close]
remove_close_points(pts, radius) ==
    [r \in 1..Len(pts) |-> mask_row(pts[r], not_close(pts, radius))]

translate_points(pts, x) ==
    [r \in 1..Len(pts) |->
        IF r <= 3 THEN [i \in 1..Len(pts[r]) |-> pts[r][i] + x[r]] ELSE pts[r]]

\* self.points[:3, :] = value
set_first3(pts, value) == [r \in 1..Len(pts) |-> IF r <= 3 THEN value[r] ELSE pts[r]]

rotate_points(pts, rot_matrix) ==
    set_first3(pts, Dot(rot_matrix, SubSeq(pts, 1, 3), nbr_points(pts)))

\* transform replacing the whole matrix by the three transformed rows.
transform_points_3rows(pts, transf_matrix) ==
    LET ones == [i \in 1..nbr_points(pts) |-> 1]
        vstack == SubSeq(pts, 1, 3) \o <<ones>>
    IN  SubSeq(Dot(transf_matrix, vstack, nbr_points(pts)), 1, 3)

transform_points(pts, transf_matrix) ==
    LET ones == [i \in 1..nbr_points(pts) |-> 1]
        vstack == SubSeq(pts, 1, 3) \o <<ones>>
    IN  set_first3(pts, SubSeq(Dot(transf_matrix, vstack, nbr_points(pts)), 1, 3))

Called(op, arg) == last' = [op |-> op, n |-> nbr_points(points), arg |-> arg]

PointCloud_subsample(ratio) ==
    /\ LET size == int(nbr_points(points) * ratio[1], ratio[2])
       IN  /\ size <= MaxPoints
           /\ \E selected_ind \in [1..size -> 1..nbr_points(points)] :
                  points' = take_columns(points, selected_ind)
    /\ Called("subsample", ratio)
    /\ UNCHANGED <<loaderVars, boxVars>>

PointCloud_remove_close(radius) ==
    /\ points' = remove_close_points(points, radius)
    /\ Called("remove_close", radius)
    /\ UNCHANGED <<loaderVars, boxVars>>

PointCloud_translate(x) ==
    /\ points' = translate_points(points, x)
    /\ InCloudDomain(points')
    /\ Called("translate", 0)
    /\ UNCHANGED <<loaderVars, boxVars>>

PointCloud_rotate(rot_matrix) ==
    /\ points' = rotate_points(points, rot_matrix)
    /\ InCloudDomain(points')
    /\ Called("rotate", 0)
    /\ UNCHANGED <<loaderVars, boxVars>>

PointCloud_transform(transf_matrix) ==
    /\ points' = transform_points(points, transf_matrix)
    /\ InCloudDomain(points')
    /\ Called("transform", 0)
    /\ UNCHANGED <<loaderVars, boxVars>>

\* A PointCloud constructed from a 4 x N matrix with intensities in ivals.
InitCloudOver(ivals) ==
    /\ \E n \in 0..MaxPoints :
           \E x \in [1..n -> XYVals], y \in [1..n -> XYVals], z \in [1..n -> ZVals],
              intensity \in [1..n -> ivals] :
               points = <<x, y, z, intensity>>
    /\ last = [op |-> "init", n |-> nbr_points(points), arg |-> 0]
    /\ loaderIdle
    /\ boxIdle

\* Any sequence of calls on a PointCloud; no call changes the intensities, and
\* the clouds start with one intensity.
InitCloud == InitCloudOver({1})
NextCloud ==
    \/ \E ratio \in Ratios : PointCloud_subsample(ratio)
    \/ \E radius \in Radii : PointCloud_remove_close(radius)
    \/ \E x \in Translations : PointCloud_translate(x)
    \/ \E rot_matrix \in RotationMatrices : PointCloud_rotate(rot_matrix)
    \/ \E transf_matrix \in TransformMatrices : PointCloud_transform(transf_matrix)
SpecCloud == InitCloud /\ [][NextCloud]_vars

\* Calls of remove_close on any PointCloud of the value sets.
InitRemoveClose == InitCloudOver(IntensityVals)
NextRemoveClose == \E radius \in Radii : PointCloud_remove_close(radius)
SpecRemoveClose == InitRemoveClose /\ [][NextRemoveClose]_vars

(***************************************************************************)
(* Box.  center and wlh are integers, orientation a unit quaternion        *)
(* <<w, x, y, z>> with integer components; label, score and the velocity   *)
(* components are numbers or NaN.                                          *)
(***************************************************************************)
\* Floating-point + and * on whole numbers and NaN: NaN in, NaN out.
fadd(a, b) == IF isnan(a) \/ isnan(b) THEN NaN ELSE Num(a.v + b.v)
fmul(a, b) == IF isnan(a) \/ isnan(b) THEN NaN ELSE Num(a.v * b.v)

\* a == b on floats: false when either side is NaN.
feq(a, b) == ~isnan(a) /\ ~isnan(b) /\ a = b

UnitQuaternions ==
    {<<1, 0, 0, 0>>, <<-1, 0, 0, 0>>, <<0, 1, 0, 0>>, <<0, -1, 0, 0>>,
     <<0, 0, 1, 0>>, <<0, 0, -1, 0>>, <<0, 0, 0, 1>>, <<0, 0, 0, -1>>}
IdentityQuaternion == <<1, 0, 0, 0>>

\* Quaternion.__mul__: the Hamilton product p * q.
quaternion_mul(p, q) ==
    <<p[1] * q[1] - p[2] * q[2] - p[3] * q[3] - p[4] * q[4],
      p[1] * q[2] + p[2] * q[1] + p[3] * q[4] - p[4] * q[3],
      p[1] * q[3] - p[2] * q[4] + p[3] * q[1] + p[4] * q[2],
      p[1] * q[4] + p[2] * q[3] - p[3] * q[2] + p[4] * q[1]>>

\* Quaternion.rotation_matrix of a unit quaternion.
rotation_matrix(q) ==
    LET w == q[1]
        x == q[2]
        y == q[3]
        z == q[4]
    IN  <<<<1 - 2 * (y * y + z * z), 2 * (x * y - z * w), 2 * (x * z + y * w)>>,
          <<2 * (x * y + z * w), 1 - 2 * (x * x + z * z), 2 * (y * z - x * w)>>,
          <<2 * (x * z - y * w), 2 * (y * z + x * w), 1 - 2 * (x * x + y * y)>>>>

\* np.dot of a 3 x 3 integer matrix and an integer 3-vector.
dot_vector(m, v) == [i \in 1..3 |-> m[i][1] * v[1] + m[i][2] * v[2] + m[i][3] * v[3]]

\* np.dot of a 3 x 3 integer matrix and a 3-vector of floats.
dot_float_vector(m, v) ==
    [i \in 1..3 |->
        fadd(fadd(fmul(Num(m[i][1]), v[1]), fmul(Num(m[i][2]), v[2])),
             fmul(Num(m[i][3]), v[3]))]

\* Box.__init__
Box(center, size, orientation, label, score, velocity, name) ==
    [center |-> center, wlh |-> size, orientation |-> orientation, label |-> label,
     score |-> score, velocity |-> velocity, name |-> name]

\* np.allclose on vectors of integers of the model: the tolerance
\* 1e-8 + 1e-5 |b| is below 1, so two of them are close when equal.
allclose_int(a, b) == \A i \in 1..Len(a) : a[i] = b[i]

\* np.allclose on vectors of floats: NaN is close to nothing.
allclose(a, b) == \A i \in 1..Len(a) : feq(a[i], b[i])

\* Box.__eq__
Box_eq_value(self, o) ==
    LET center == allclose_int(self.center, o.center)
        wlh == allclose_int(self.wlh, o.wlh)
        orientation == allclose_int(self.orientation, o.orientation)
        label == feq(self.label, o.label) \/ (isnan(self.label) /\ isnan(o.label))
        score == feq(self.score, o.score) \/ (isnan(self.score) /\ isnan(o.score))
        vel == \/ allclose(self.velocity, o.velocity)
               \/ /\ \A i \in 1..3 : isnan(self.velocity[i])
                  /\ \A i \in 1..3 : isnan(o.velocity[i])
    IN  center /\ wlh /\ orientation /\ label /\ score /\ vel

\* Box.translate
translate_box(b, x) == [b EXCEPT !.center = [i \in 1..3 |-> b.center[i] + x[i]]]

\* Box.rotate
rotate_box(b, quaternion) ==
    [b EXCEPT !.center = dot_vector(rotation_matrix(quaternion), b.center),
              !.orientation = quaternion_mul(quaternion, b.orientation),
              !.velocity = dot_float_vector(rotation_matrix(quaternion), b.velocity)]

\* corners with the width along x and the length along y.
corners_wl_swapped(b, wlh_factor) ==
    LET w == b.wlh[1] * wlh_factor
        l == b.wlh[2] * wlh_factor
        h == b.wlh[3] * wlh_factor
        x_corners == [i \in 1..8 |-> w * <<1, 1, 1, 1, -1, -1, -1, -1>>[i]]
        y_corners == [i \in 1..8 |-> l * <<1, -1, -1, 1, 1, -1, -1, 1>>[i]]
        z_corners == [i \in 1..8 |-> h * <<1, 1, -1, -1, 1, 1, -1, -1>>[i]]
        vstack == <<x_corners, y_corners, z_corners>>
        rotated == Dot(rotation_matrix(b.orientation), vstack, 8)
    IN  [r \in 1..3 |-> [i \in 1..8 |-> rotated[r][i] + 2 * b.center[r]]]

\* Box.corners, in half units: entry (r, i) is twice coordinate r of corner
\* i, so that l / 2, w / 2 and h / 2 are whole.
corners(b, wlh_factor) ==
    LET w == b.wlh[1] * wlh_factor
        l == b.wlh[2] * wlh_factor
        h == b.wlh[3] * wlh_factor
        x_corners == [i \in 1..8 |-> l * <<1, 1, 1, 1, -1, -1, -1, -1>>[i]]
        y_corners == [i \in 1..8 |-> w * <<1, -1, -1, 1, 1, -1, -1, 1>>[i]]
        z_corners == [i \in 1..8 |-> h * <<1, 1, -1, -1, 1, 1, -1, -1>>[i]]
        vstack == <<x_corners, y_corners, z_corners>>
        rotated == Dot(rotation_matrix(b.orientation), vstack, 8)
    IN  [r \in 1..3 |-> [i \in 1..8 |-> rotated[r][i] + 2 * b.center[r]]]

\* Box.bottom_corners: self.corners()[:, [2, 3, 7, 6]], counting from 1 here.
bottom_corners(b) == take_columns(corners(b, 1), <<3, 4, 8, 7>>)

BoxSizes == {<<1, 1, 1>>, <<1, 2, 1>>, <<2, 1, 1>>, <<1, 1, 2>>}
Factors == 1..2
UnitVectors ==
    {<<1, 0, 0>>, <<-1, 0, 0>>, <<0, 1, 0>>, <<0, -1, 0>>, <<0, 0, 1>>, <<0, 0, -1>>}
Velocities ==
    {<<NaN, NaN, NaN>>, <<Num(1), Num(0), Num(0)>>, <<NaN, Num(1), Num(0)>>}

Box_translate(x) ==
    /\ box' = translate_box(box, x)
    /\ \A i \in 1..3 : Abs(box'.center[i]) <= MaxCenter
    /\ out' = NoOut
    /\ UNCHANGED <<built, other, loaderVars, cloudVars>>

Box_rotate(quaternion) ==
    /\ box' = rotate_box(box, quaternion)
    /\ out' = NoOut
    /\ UNCHANGED <<built, other, loaderVars, cloudVars>>

Box_corners(wlh_factor) ==
    /\ out' = [op |-> "corners", arg |-> wlh_factor, value |-> corners(box, wlh_factor)]
    /\ UNCHANGED <<box, built, other, loaderVars, cloudVars>>

Box_bottom_corners ==
    /\ out' = [op |-> "bottom_corners", arg |-> 0, value |-> bottom_corners(box)]
    /\ UNCHANGED <<box, built, other, loaderVars, cloudVars>>

Box_eq ==
    /\ out' = [op |-> "eq", arg |-> 0, value |-> Box_eq_value(box, other)]
    /\ UNCHANGED <<box, built, other, loaderVars, cloudVars>>

\* A Box constructed with the default label and score, then translated,
\* rotated and asked for its corners.
InitBox ==
    /\ \E center \in [1..3 -> -MaxCenter..MaxCenter], size \in BoxSizes,
          orientation \in UnitQuaternions, velocity \in Velocities :
           box = Box(center, size, orientation, NaN, NaN, velocity, "None")
    /\ built = [i \in 1..3 |-> isnan(box.velocity[i])]
    /\ other = IdleBox
    /\ out = NoOut
    /\ loaderIdle
    /\ cloudIdle
NextBox ==
    \/ \E x \in UnitVectors : Box_translate(x)
    \/ \E quaternion \in UnitQuaternions : Box_rotate(quaternion)
    \/ \E wlh_factor \in Factors : Box_corners(wlh_factor)
    \/ Box_bottom_corners
SpecBox == InitBox /\ [][NextBox]_vars

\* Two boxes, compared.  A box is one of a few centers, sizes, orientations,
\* labels and scores, with any velocity over NaN, 0 and 1.
BoxCores ==
    {<<<<0, 0, 0>>, <<1, 2, 1>>, <<1, 0, 0, 0>>, Num(1), Num(1)>>,
     <<<<0, 1, 0>>, <<1, 2, 1>>, <<1, 0, 0, 0>>, Num(1), Num(1)>>,
     <<<<0, 0, 0>>, <<2, 2, 1>>, <<1, 0, 0, 0>>, Num(1), Num(1)>>,
     <<<<0, 0, 0>>, <<1, 2, 1>>, <<0, 0, 0, 1>>, Num(1), Num(1)>>,
     <<<<0, 0, 0>>, <<1, 2, 1>>, <<1, 0, 0, 0>>, Num(2), Num(1)>>,
     <<<<0, 0, 0>>, <<1, 2, 1>>, <<1, 0, 0, 0>>, NaN, Num(1)>>,
     <<<<0, 0, 0>>, <<1, 2, 1>>, <<1, 0, 0, 0>>, Num(1), Num(0)>>,
     <<<<0, 0, 0>>, <<1, 2, 1>>, <<1, 0, 0, 0>>, Num(1), NaN>>}
IsBoxInput(b) ==
    \E c \in BoxCores, velocity \in [1..3 -> {NaN, Num(0), Num(1)}] :
        b = Box(c[1], c[2], c[3], c[4], c[5], velocity, "None")
InitBoxEq ==
    /\ IsBoxInput(box)
    /\ IsBoxInput(other)
    /\ built = [i \in 1..3 |-> isnan(box.velocity[i])]
    /\ out = NoOut
    /\ loaderIdle
    /\ cloudIdle
NextBoxEq == Box_eq
SpecBoxEq == InitBoxEq /\ [][NextBoxEq]_vars

(***************************************************************************)
(* What the claims about the loaders say of a file.                        *)
(***************************************************************************)
\* A valid header: HEIGHT 1, DATA binary, WIDTH > 0, every COUNT 1, every
\* (TYPE, SIZE) pair one the format has.
ValidHeader(f) ==
    /\ f.width > 0
    /\ f.height = 1
    /\ f.data = "binary"
    /\ \A p \in 1..Len(f.counts) : f.counts[p] = "1"
    /\ \A p \in 1..Len(f.types) : unpacking_lut(f.types[p], f.sizes[p]) # "KeyError"

PointBytes(f) == SumSeq(f.sizes)
PayloadBytes(f) == f.width * PointBytes(f)

\* Field p of point i of the payload, decoded: point i starts at byte
\* (i - 1) * PointBytes, field p after the fields before it.
FieldOf(f, i, p) ==
    LET start == (i - 1) * PointBytes(f) + SumSeq(SubSeq(f.sizes, 1, p - 1))
    IN  Unpack(types_str(f)[p], SubSeq(f.data_binary, start + 1, start + f.sizes[p]))

FirstPointHasNaN(f) == \E p \in 1..Len(f.types) : isnan(FieldOf(f, 1, p))

\* The K x W matrix whose entry (p, i) is field p of point i.
FieldMatrix(f) == [p \in 1..Len(f.types) |-> [i \in 1..f.width |-> FieldOf(f, i, p)]]

\* C1: a valid header over a payload of exactly WIDTH * sum(SIZE) bytes whose
\* first point holds no NaN decodes to the K x W matrix of the fields, and
\* raises no bounds error: that error is raised only when a field read would
\* extend past the end of the payload.
C1_ExactPayloadDecodes ==
    (/\ pc = "done"
     /\ ValidHeader(file)
     /\ Len(file.data_binary) = PayloadBytes(file)
     /\ ~FirstPointHasNaN(file))
        => /\ ret.kind # "AssertionError"
           /\ ret = Returned("matrix", FieldMatrix(file))

\* C2: a valid header over a payload holding WIDTH complete points whose first
\* point holds a NaN returns the K x 0 matrix, not an error.
C2_NaNFirstPointIsEmpty ==
    (/\ pc = "done"
     /\ ValidHeader(file)
     /\ Len(file.data_binary) >= PayloadBytes(file)
     /\ FirstPointHasNaN(file))
        => ret = Returned("matrix", EmptyMatrix(Len(file.types)))

\* C3: a header whose COUNT line holds a value other than 1 is rejected with
\* an error, and no payload is decoded under it.
C3_OtherCountRejected ==
    (\E p \in 1..Len(file.counts) : file.counts[p] # "1") =>
        /\ pc # "decode"
        /\ pc = "done" => ret.kind \in {"AssertionError", "KeyError"}

\* C4: a flat binary buffer whose byte length is no multiple of 20 fails with
\* an error; no matrix is returned for it.
C4_NotMultipleOf20Fails ==
    (pc = "done" /\ FileLen(file) % 20 # 0) => ret.kind = "ValueError"

\* C5: from_file returns, for a .pcd file with a valid header and K fields that
\* the decoder accepts, a PointCloud of K rows and N columns; for a .bin file
\* of whole points a PointCloud of 4 rows; and raises an error, constructing
\* nothing, for any other extension.
C5_FromFileWraps ==
    pc = "done" =>
        /\ (/\ endswith(file_name, <<".", "p", "c", "d">>)
            /\ ValidHeader(file)
            /\ in_bounds(PayloadBytes(file), file.data_binary))
               => /\ ret.kind = "PointCloud"
                  /\ NbrRows(ret.value) = Len(file.types)
                  /\ NbrCols(ret.value) = IF FirstPointHasNaN(file) THEN 0 ELSE file.width
        /\ (endswith(file_name, <<".", "b", "i", "n">>) /\ FileLen(file) % 20 = 0)
               => /\ ret.kind = "PointCloud"
                  /\ NbrRows(ret.value) = 4
                  /\ NbrCols(ret.value) = FileLen(file) \div 20
        /\ (/\ ~endswith(file_name, <<".", "p", "c", "d">>)
            /\ ~endswith(file_name, <<".", "b", "i", "n">>))
               => ret.kind = "ValueError"

(***************************************************************************)
(* The claims about PointCloud.                                            *)
(***************************************************************************)
\* C6: after any sequence of subsample, remove_close, translate, rotate and
\* transform calls the matrix has the 4 rows it was constructed with; the
\* column count is the one before the call after translate, rotate and
\* transform, floor(N * ratio) after subsample, and at most N after
\* remove_close.
C6_ShapeKept ==
    /\ NbrRows(points) = 4
    /\ \A r \in 1..NbrRows(points) : Len(points[r]) = NbrCols(points)
    /\ last.op \in {"translate", "rotate", "transform"} => NbrCols(points) = last.n
    /\ last.op = "subsample" =>
           /\ NbrCols(points) * last.arg[2] <= last.n * last.arg[1]
           /\ last.n * last.arg[1] < (NbrCols(points) + 1) * last.arg[2]
    /\ last.op = "remove_close" => NbrCols(points) <= last.n

\* Half of a cloud of two points was kept by subsample.
C6_Witness ==
    /\ last.op = "subsample"
    /\ last.n = 2
    /\ last.arg = <<1, 2>>
    /\ NbrCols(points) = 1

\* new holds, in their order, the columns of old outside the square gate
\* -radius < x < radius, -radius < y < radius, each with all its rows.
IsGateFilter(old, new, radius) ==
    LET kept == {i \in 1..NbrCols(old) :
                    ~(/\ -radius < old[1][i] /\ old[1][i] < radius
                      /\ -radius < old[2][i] /\ old[2][i] < radius)}
        nth(j) == CHOOSE i \in kept : Cardinality({k \in kept : k < i}) = j - 1
    IN  /\ NbrRows(new) = NbrRows(old)
        /\ \A r \in 1..NbrRows(new) : Len(new[r]) = Cardinality(kept)
        /\ \A j \in 1..Cardinality(kept) :
               \A r \in 1..NbrRows(new) : new[r][j] = old[r][nth(j)]

SameOrBothAbsent(a, b) == (isnan(a) /\ isnan(b)) \/ (~isnan(a) /\ ~isnan(b) /\ a = b)

\* C8: two boxes with equal center, extents, orientation, label and score
\* compare equal exactly if each of the three velocity components is equal on
\* both sides or absent on both sides.
C8_EqComponentWise ==
    (/\ out.op = "eq"
     /\ box.center = other.center
     /\ box.wlh = other.wlh
     /\ box.orientation = other.orientation
     /\ SameOrBothAbsent(box.label, other.label)
     /\ SameOrBothAbsent(box.score, other.score))
        => (out.value <=>
               \A i \in 1..3 : SameOrBothAbsent(box.velocity[i], other.velocity[i]))

\* C9: after any sequence of translate and rotate calls, each velocity
\* component is absent exactly if it was absent at construction (center and
\* wlh are whole numbers throughout).
C9_PresenceKept ==
    \A i \in 1..3 : isnan(box.velocity[i]) <=> built[i]

SignX == <<1, 1, 1, 1, -1, -1, -1, -1>>
SignY == <<1, -1, -1, 1, 1, -1, -1, 1>>
SignZ == <<1, 1, -1, -1, 1, 1, -1, -1>>

\* C10: corners(f) has 8 columns; under the identity orientation column i is
\* c + f (sx[i] l / 2, sy[i] w / 2, sz[i] h / 2), so that corners i and i + 4
\* differ in the sign of the x offset only; bottom_corners() is columns
\* 2, 3, 7, 6 of corners(), all at z = c_z - h / 2 under the identity
\* orientation.  (The entries are in half units.)
C10_Corners ==
    /\ out.op = "corners" =>
           /\ NbrRows(out.value) = 3
           /\ \A r \in 1..3 : Len(out.value[r]) = 8
           /\ box.orientation = IdentityQuaternion =>
                  /\ \A i \in 1..8 :
                         /\ out.value[1][i] = 2 * box.center[1] + out.arg * SignX[i] * box.wlh[2]
                         /\ out.value[2][i] = 2 * box.center[2] + out.arg * SignY[i] * box.wlh[1]
                         /\ out.value[3][i] = 2 * box.center[3] + out.arg * SignZ[i] * box.wlh[3]
                  /\ \A i \in 1..4 :
                         /\ out.value[1][i] - 2 * box.center[1]
                                = -(out.value[1][i + 4] - 2 * box.center[1])
                         /\ out.value[2][i] = out.value[2][i + 4]
                         /\ out.value[3][i] = out.value[3][i + 4]
    /\ out.op = "bottom_corners" =>
           /\ NbrRows(out.value) = 3
           /\ \A r \in 1..3 :
                  /\ Len(out.value[r]) = 4
                  /\ out.value[r][1] = corners(box, 1)[r][3]
                  /\ out.value[r][2] = corners(box, 1)[r][4]
                  /\ out.value[r][3] = corners(box, 1)[r][8]
                  /\ out.value[r][4] = corners(box, 1)[r][7]
           /\ box.orientation = IdentityQuaternion =>
                  \A j \in 1..4 : out.value[3][j] = 2 * box.center[3] - box.wlh[3]

\* bottom_corners() of the box of extents (1, 1, 1) at the origin under the
\* identity orientation: four points at z = -0.5.
C10_Witness ==
    /\ out.op = "bottom_corners"
    /\ box.center = <<0, 0, 0>>
    /\ box.wlh = <<1, 1, 1>>
    /\ box.orientation = IdentityQuaternion
    /\ \A j \in 1..4 : out.value[3][j] = -1

====
